---- MODULE Spec2Model ----
(***************************************************************************)
(* State-machine model of the NavigationHeader organism                    *)
(* (src/src/components/organisms/NavigationHeader/NavigationHeader.tsx).   *)
(*                                                                         *)
(* The component owns one piece of React state, isMobileMenuOpen, and      *)
(* renders a tree that is a function of it.  The handlers attached to the  *)
(* rendered elements are closures of the render that created them.  A      *)
(* click is a discrete event: React runs the handler and commits the       *)
(* re-render before the next event is dispatched, so every click action    *)
(* below ends with the re-render.                                          *)
(***************************************************************************)
EXTENDS Naturals, Sequences, FiniteSets

VARIABLES
    isMobileMenuOpen,   \* the useState value of the mounted instance
    closure,            \* the value of isMobileMenuOpen captured by the handlers of the last render
    tree,               \* the rendered elements, in document order
    history,            \* data-testids activated since mount, oldest first
    second,             \* a second NavigationHeader instance on the same page
    button,             \* a mounted Button atom: props, rendered element, onClick calls
    metrics,            \* a mounted Metrics molecule: props and rendered items
    hosts,              \* two NavigationHeader instances with the props their parent passes
    code,               \* a CodeExample of the showcase page, its clipboard writes and timers
    navDemo             \* the NavTextItem demo of the showcase page

vars == <<isMobileMenuOpen, closure, tree, history, second, button, metrics,
          hosts, code, navDemo>>

showcaseVars == <<code, navDemo>>

headerVars == <<isMobileMenuOpen, closure, tree, history>>

\* The value of a variable whose component is not on the page.
Unmounted == <<>>

\* Longest sequence of user activations explored after a mount.
MaxEvents == 4

\* Longest sequence of direct handler calls explored by SpecController.
MaxCalls == 6

----------------------------------------------------------------------------
(* Static data of the render                                               *)

NavItems == <<"product", "enterprise", "contact">>

NavLabel(item) ==
    CASE item = "product"    -> "Product"
      [] item = "enterprise" -> "Enterprise"
      [] item = "contact"    -> "Contact"

NavHref(item) ==
    CASE item = "product"    -> "#product"
      [] item = "enterprise" -> "#enterprise"
      [] item = "contact"    -> "#contact"

CtaItems == <<"login", "signup">>

CtaLabel(btn) ==
    CASE btn = "login"  -> "Log In"
      [] btn = "signup" -> "Sign Up"

\* JSX serialises a boolean aria-* attribute to the strings "true" / "false".
BoolAttr(b) == IF b THEN "true" ELSE "false"

\* One rendered element.  Fields an element does not carry are "".
\* onClick names the handler attached to the element, "none" when there is none.
Element(tag, testid, name, href, onClick, ariaExpanded, src) ==
    [tag |-> tag, testid |-> testid, name |-> name, href |-> href,
     onClick |-> onClick, ariaExpanded |-> ariaExpanded, src |-> src]

----------------------------------------------------------------------------
(* Handlers: each maps the value captured by the render to the value       *)
(* handed to setIsMobileMenuOpen.                                          *)

toggleMobileMenu_stuckOpen(captured) == TRUE

toggleMobileMenu(captured) == ~captured

closeMobileMenu_toggle(captured) == ~captured

closeMobileMenu(captured) == FALSE

handleNavClick_noop(captured) == captured

handleNavClick(captured) == closeMobileMenu(captured)

\* The value given to setIsMobileMenuOpen by the handler named h;
\* an element without a handler leaves the state as it is.
Dispatch(h, captured, current) ==
    CASE h = "toggleMobileMenu" -> toggleMobileMenu(captured)
      [] h = "handleNavClick"   -> handleNavClick(captured)
      [] OTHER                  -> current

----------------------------------------------------------------------------
(* Render                                                                  *)

ToggleAriaLabel_swapped(open) == IF open THEN "Open menu" ELSE "Close menu"

ToggleAriaLabel(open) == IF open THEN "Close menu" ELSE "Open menu"

ToggleAriaExpanded_const(open) == BoolAttr(FALSE)

ToggleAriaExpanded(open) == BoolAttr(open)

ToggleIconSrc_hamburger(open) == "/hamburger.svg"

ToggleIconSrc(open) == IF open THEN "/close.svg" ELSE "/hamburger.svg"

ShowMobileMenu_always(open) == TRUE

ShowMobileMenu(open) == open

MobileNavLinkOnClick == "handleNavClick"

MobileCtaOnClick_none == "none"

MobileCtaOnClick == "handleNavClick"

ToggleOnClick_none == "none"

ToggleOnClick == "toggleMobileMenu"

DesktopNavLink(item) ==
    Element("a", "nav-link-" \o item, NavLabel(item), NavHref(item), "none", "", "")

DesktopCta_closes(btn) ==
    Element("button", "cta-" \o btn, CtaLabel(btn), "", "handleNavClick", "", "")

DesktopCta(btn) ==
    Element("button", "cta-" \o btn, CtaLabel(btn), "", "none", "", "")

MobileNavLink_sameHref(item) ==
    Element("a", "mobile-nav-link-" \o item, NavLabel(item), "#product",
            MobileNavLinkOnClick, "", "")

MobileNavLink(item) ==
    Element("a", "mobile-nav-link-" \o item, NavLabel(item), NavHref(item),
            MobileNavLinkOnClick, "", "")

MobileCta(btn) ==
    Element("button", "mobile-cta-" \o btn, CtaLabel(btn), "", MobileCtaOnClick, "", "")

\* The always-rendered container: logo, desktop navigation, CTA pair, toggle.
HeaderRow(open) ==
    << Element("header", "navigation-header", "", "", "none", "", ""),
       Element("div", "navigation-logo", "", "", "none", "", ""),
       Element("img", "", "CKYE Logo", "", "none", "", "/logo.png"),
       Element("nav", "desktop-navigation", "Main navigation", "", "none", "", "") >>
    \o [i \in 1..Len(NavItems) |-> DesktopNavLink(NavItems[i])]
    \o << Element("div", "desktop-cta-buttons", "", "", "none", "", "") >>
    \o [i \in 1..Len(CtaItems) |-> DesktopCta(CtaItems[i])]
    \o << Element("button", "mobile-menu-toggle", ToggleAriaLabel(open), "",
                  ToggleOnClick, ToggleAriaExpanded(open), ""),
          Element("img", "", "", "", "none", "", ToggleIconSrc(open)) >>

MobileMenu_noCta ==
    << Element("div", "mobile-menu", "", "", "none", "", ""),
       Element("nav", "", "Mobile navigation", "", "none", "", "") >>
    \o [i \in 1..Len(NavItems) |-> MobileNavLink(NavItems[i])]

\* The dropdown rendered under {isMobileMenuOpen && (...)}.
MobileMenu ==
    << Element("div", "mobile-menu", "", "", "none", "", ""),
       Element("nav", "", "Mobile navigation", "", "none", "", "") >>
    \o [i \in 1..Len(NavItems) |-> MobileNavLink(NavItems[i])]
    \o << Element("div", "mobile-cta-buttons", "", "", "none", "", "") >>
    \o [i \in 1..Len(CtaItems) |-> MobileCta(CtaItems[i])]

Render(open) ==
    HeaderRow(open) \o (IF ShowMobileMenu(open) THEN MobileMenu ELSE <<>>)

----------------------------------------------------------------------------
(* Queries on a rendered tree (the getByTestId / getByRole of the tests)   *)

HasTestId(t, id) == \E i \in 1..Len(t) : t[i].testid = id

GetByTestId(t, id) == t[CHOOSE i \in 1..Len(t) : t[i].testid = id]

HasLandmark(t, name) == \E i \in 1..Len(t) : t[i].tag = "nav" /\ t[i].name = name

\* The decorative image inside the toggle is the element that follows it.
ToggleIcon(t) == t[(CHOOSE i \in 1..Len(t) : t[i].testid = "mobile-menu-toggle") + 1]

----------------------------------------------------------------------------
(* Mount and user activations                                              *)

InitialOpen_true == TRUE

InitialOpen == FALSE

Init ==
    /\ isMobileMenuOpen = InitialOpen
    /\ closure = InitialOpen
    /\ tree = Render(InitialOpen)
    /\ history = <<>>
    /\ second = Unmounted
    /\ button = Unmounted
    /\ metrics = Unmounted
    /\ hosts = Unmounted
    /\ code = Unmounted
    /\ navDemo = Unmounted

\* A fresh instance replaces the mounted one: the old state is discarded.
Mount ==
    /\ isMobileMenuOpen' = InitialOpen
    /\ closure' = InitialOpen
    /\ tree' = Render(InitialOpen)
    /\ history' = <<>>
    /\ UNCHANGED <<second, button, metrics, hosts, showcaseVars>>

\* A click on the rendered element with data-testid id: its handler runs
\* with the values its render captured, then the component re-renders.
Click(id) ==
    /\ Len(history) < MaxEvents
    /\ HasTestId(tree, id)
    /\ isMobileMenuOpen' = Dispatch(GetByTestId(tree, id).onClick, closure, isMobileMenuOpen)
    /\ closure' = isMobileMenuOpen'
    /\ tree' = Render(isMobileMenuOpen')
    /\ history' = Append(history, id)
    /\ UNCHANGED <<second, button, metrics, hosts, showcaseVars>>

ToggleClick == Click("mobile-menu-toggle")

Keys == {"Enter", "Space", "Escape"}

KeyActivates_enterOnly(tag, key) == key = "Enter"

\* The platform's activation behaviour: Enter and Space on a focused button,
\* Enter on a focused link, fire the element's click event.  The component
\* registers no key handler of its own, so any other key does nothing.
KeyActivates(tag, key) ==
    \/ tag = "button" /\ key \in {"Enter", "Space"}
    \/ tag = "a" /\ key = "Enter"

\* A key pressed while the rendered element with data-testid id has focus.
KeyPress(id, key) ==
    /\ Len(history) < MaxEvents
    /\ HasTestId(tree, id)
    /\ LET el == GetByTestId(tree, id)
           h  == IF KeyActivates(el.tag, key) THEN el.onClick ELSE "none"
       IN  isMobileMenuOpen' = Dispatch(h, closure, isMobileMenuOpen)
    /\ closure' = isMobileMenuOpen'
    /\ tree' = Render(isMobileMenuOpen')
    /\ history' = Append(history, id \o ":" \o key)
    /\ UNCHANGED <<second, button, metrics, hosts, showcaseVars>>

ToggleKeyPress == \E key \in Keys : KeyPress("mobile-menu-toggle", key)

MobileNavLinkClick == \E i \in 1..Len(NavItems) : Click("mobile-nav-link-" \o NavItems[i])

MobileCtaClick == \E i \in 1..Len(CtaItems) : Click("mobile-cta-" \o CtaItems[i])

DesktopNavLinkClick == \E i \in 1..Len(NavItems) : Click("nav-link-" \o NavItems[i])

DesktopCtaClick == \E i \in 1..Len(CtaItems) : Click("cta-" \o CtaItems[i])

Next ==
    \/ Mount
    \/ ToggleClick
    \/ ToggleKeyPress
    \/ MobileNavLinkClick
    \/ MobileCtaClick
    \/ DesktopNavLinkClick
    \/ DesktopCtaClick

Spec == Init /\ [][Next]_vars

----------------------------------------------------------------------------
(* The disclosure controller on its own: the two handlers of the current   *)
(* render called directly, in any state, each followed by the re-render.   *)

ToggleCall ==
    /\ Len(history) < MaxCalls
    /\ isMobileMenuOpen' = toggleMobileMenu(closure)
    /\ closure' = isMobileMenuOpen'
    /\ tree' = Render(isMobileMenuOpen')
    /\ history' = Append(history, "toggleMobileMenu")
    /\ UNCHANGED <<second, button, metrics, hosts, showcaseVars>>

CloseCall ==
    /\ Len(history) < MaxCalls
    /\ isMobileMenuOpen' = closeMobileMenu(closure)
    /\ closure' = isMobileMenuOpen'
    /\ tree' = Render(isMobileMenuOpen')
    /\ history' = Append(history, "closeMobileMenu")
    /\ UNCHANGED <<second, button, metrics, hosts, showcaseVars>>

NextController ==
    \/ ToggleCall
    \/ CloseCall

SpecController == Init /\ [][NextController]_vars

----------------------------------------------------------------------------
(* Activations dispatched before the re-render.  React commits the update  *)
(* of a click in a microtask after the event; clicks dispatched from one   *)
(* task (element.click() called twice, or several clicks inside one act()  *)
(* of the tests) run their handlers before that commit.  Every handler is  *)
(* the one of the last committed render and reads the isMobileMenuOpen     *)
(* that render captured, because the handlers pass a value, not an         *)
(* updater function, to setIsMobileMenuOpen.                               *)

\* Longest sequence of activations explored by SpecBatched.
MaxBatched == 4

\* A click whose re-render has not been committed yet: the state cell gets
\* the handler's value, the rendered tree and its closures stay.
BatchedClick(id) ==
    /\ Len(history) < MaxBatched
    /\ HasTestId(tree, id)
    /\ isMobileMenuOpen' = Dispatch(GetByTestId(tree, id).onClick, closure, isMobileMenuOpen)
    /\ history' = Append(history, id)
    /\ UNCHANGED <<closure, tree, second, button, metrics, hosts, showcaseVars>>

BatchedToggleClick == BatchedClick("mobile-menu-toggle")

BatchedPanelClick ==
    \/ \E i \in 1..Len(NavItems) : BatchedClick("mobile-nav-link-" \o NavItems[i])
    \/ \E i \in 1..Len(CtaItems) : BatchedClick("mobile-cta-" \o CtaItems[i])

\* The pending update is committed: the component function runs again with
\* the current state value.
Flush ==
    /\ closure # isMobileMenuOpen
    /\ closure' = isMobileMenuOpen
    /\ tree' = Render(isMobileMenuOpen)
    /\ UNCHANGED <<isMobileMenuOpen, history, second, button, metrics, hosts, showcaseVars>>

NextBatched ==
    \/ BatchedToggleClick
    \/ BatchedPanelClick
    \/ Flush

SpecBatched == Init /\ [][NextBatched]_vars

----------------------------------------------------------------------------
(* Two NavigationHeader instances rendered side by side.  Each call of the *)
(* component function has its own useState cell.  Instance 1 is held in    *)
(* the header variables, instance 2 in the variable second.                *)

\* Longest sequence of activations explored over the two instances.
MaxTwoEvents == 3

\* What one mounted instance holds after rendering with state value open.
Rendered(open) == [isMobileMenuOpen |-> open, closure |-> open, tree |-> Render(open)]

Instance(inst) ==
    IF inst = 1
    THEN [isMobileMenuOpen |-> isMobileMenuOpen, closure |-> closure, tree |-> tree]
    ELSE second

StateOwner_shared(inst) == 1

\* The instance whose state cell the setter obtained by inst's useState writes.
StateOwner(inst) == inst

\* The data-testids of the elements a user can activate.
HeaderIds == {"mobile-menu-toggle"} \cup
             {"nav-link-" \o NavItems[i] : i \in 1..Len(NavItems)} \cup
             {"cta-" \o CtaItems[i] : i \in 1..Len(CtaItems)} \cup
             {"mobile-nav-link-" \o NavItems[i] : i \in 1..Len(NavItems)} \cup
             {"mobile-cta-" \o CtaItems[i] : i \in 1..Len(CtaItems)}

TwoInit ==
    /\ isMobileMenuOpen = InitialOpen
    /\ closure = InitialOpen
    /\ tree = Render(InitialOpen)
    /\ history = <<>>
    /\ second = Rendered(InitialOpen)
    /\ button = Unmounted
    /\ metrics = Unmounted
    /\ hosts = Unmounted
    /\ code = Unmounted
    /\ navDemo = Unmounted

\* A click on the element id of instance inst: the handler of that instance's
\* last render runs, and the instance owning the written cell re-renders.
ClickIn(inst, id) ==
    /\ Len(history) < MaxTwoEvents
    /\ HasTestId(Instance(inst).tree, id)
    /\ LET me    == Instance(inst)
           owner == StateOwner(inst)
           v     == Dispatch(GetByTestId(me.tree, id).onClick, me.closure,
                             Instance(owner).isMobileMenuOpen)
           after == [j \in 1..2 |-> IF j = owner THEN Rendered(v) ELSE Instance(j)]
       IN  /\ isMobileMenuOpen' = after[1].isMobileMenuOpen
           /\ closure' = after[1].closure
           /\ tree' = after[1].tree
           /\ second' = after[2]
    /\ history' = Append(history, <<inst, id>>)
    /\ UNCHANGED <<button, metrics, hosts, showcaseVars>>

FirstHeaderClick == \E id \in HeaderIds : ClickIn(1, id)

SecondHeaderClick == \E id \in HeaderIds : ClickIn(2, id)

NextTwo ==
    \/ FirstHeaderClick
    \/ SecondHeaderClick

SpecTwo == TwoInit /\ [][NextTwo]_vars

----------------------------------------------------------------------------
(* The Button atom (src/src/components/atoms/Button/Button.tsx).           *)
(* A prop is "undefined" when the caller omits it; booleans are written    *)
(* "true" / "false".                                                       *)

Undefined == "undefined"

\* Most activations of the mounted Button explored.
MaxActivations == 3

\* Parameter default of the destructuring: used only when the prop is undefined.
Default(v, dflt) == IF v = Undefined THEN dflt ELSE v

\* JavaScript truthiness of the class-list candidates ("" stands for false).
Truthy(v) == v # "" /\ v # Undefined /\ v # "false"

\* The class names the stylesheet module defines.
ButtonStyles(key) ==
    IF key \in {"button", "button--primary", "button--secondary",
                "button--tertiary", "button--disabled"}
    THEN key ELSE Undefined

ButtonClasses_alwaysDisabled(variant, disabled, className) ==
    SelectSeq(<< ButtonStyles("button"), ButtonStyles("button--" \o variant),
                 ButtonStyles("button--disabled"), className >>, Truthy)

\* buttonClasses before join(' '): the candidates that survive filter(Boolean).
ButtonClasses(variant, disabled, className) ==
    SelectSeq(<< ButtonStyles("button"),
                 ButtonStyles("button--" \o variant),
                 IF disabled = "true" THEN ButtonStyles("button--disabled") ELSE "",
                 className >>, Truthy)

ButtonDisabledAttr_dropped(disabled) == FALSE

\* The disabled attribute handed to the native button.
ButtonDisabledAttr(disabled) == disabled = "true"

\* aria-disabled={disabled} followed by {...rest}: an aria-disabled prop given
\* by the caller is part of rest and replaces the derived value.
ButtonAriaDisabled(disabled, restAriaDisabled) ==
    IF restAriaDisabled # Undefined THEN restAriaDisabled ELSE disabled

ButtonProps ==
    [variant      : {Undefined, "primary", "secondary"},
     className    : {Undefined, "", "custom-class"},
     disabled     : {Undefined, "true", "false"},
     loading      : {Undefined, "true", "false"},
     ariaDisabled : {Undefined, "true", "false"}]

\* The native button element the component returns for props p.  loading is
\* not a declared prop: it travels in rest and becomes a plain attribute.
ButtonRender(p) ==
    LET variant   == Default(p.variant, "primary")
        className == Default(p.className, "")
        disabled  == Default(p.disabled, "false")
    IN  [type         |-> "button",
         classes      |-> ButtonClasses(variant, disabled, className),
         disabled     |-> ButtonDisabledAttr(disabled),
         ariaDisabled |-> ButtonAriaDisabled(disabled, p.ariaDisabled),
         loading      |-> p.loading]

ButtonMounted(p) ==
    [props |-> p, el |-> ButtonRender(p), acts |-> 0, calls |-> 0, last |-> "mount"]

ButtonInit ==
    /\ isMobileMenuOpen = InitialOpen
    /\ closure = InitialOpen
    /\ tree = Unmounted
    /\ history = <<>>
    /\ second = Unmounted
    /\ metrics = Unmounted
    /\ \E p \in ButtonProps : button = ButtonMounted(p)
    /\ hosts = Unmounted
    /\ code = Unmounted
    /\ navDemo = Unmounted

\* The parent re-renders the Button with new props.
ButtonRerender ==
    /\ \E p \in ButtonProps :
          button' = [button EXCEPT !.props = p, !.el = ButtonRender(p), !.last = "render"]
    /\ UNCHANGED <<headerVars, second, metrics, hosts, showcaseVars>>

\* A native button that carries the disabled attribute dispatches no click
\* event and takes no focus; otherwise the click reaches onClick once.
ButtonClick ==
    /\ button.acts < MaxActivations
    /\ button' = [button EXCEPT
                    !.acts = @ + 1,
                    !.calls = IF button.el.disabled THEN @ ELSE @ + 1,
                    !.last = "click"]
    /\ UNCHANGED <<headerVars, second, metrics, hosts, showcaseVars>>

ButtonKeyPress ==
    /\ button.acts < MaxActivations
    /\ \E key \in Keys :
          button' = [button EXCEPT
                       !.acts = @ + 1,
                       !.calls = IF ~button.el.disabled /\ KeyActivates("button", key)
                                 THEN @ + 1 ELSE @,
                       !.last = key]
    /\ UNCHANGED <<headerVars, second, metrics, hosts, showcaseVars>>

NextButton ==
    \/ ButtonRerender
    \/ ButtonClick
    \/ ButtonKeyPress

SpecButton == ButtonInit /\ [][NextButton]_vars

----------------------------------------------------------------------------
(* The Metrics molecule (src/src/components/molecules/Metrics/Metrics.tsx) *)

\* Longest metrics array explored.
MaxMetrics == 3

\* The secondaryValue of a metric: omitted, the empty string, or a text.
SecondaryValues == {Undefined, "", "50"}

MetricData(sv) ==
    [title |-> "Growth", value |-> "100", secondaryValue |-> sv,
     description |-> "Year over year"]

MetricArrays ==
    UNION {[1..n -> {MetricData(sv) : sv \in SecondaryValues}] : n \in 0..MaxMetrics}

MetricsVariants == {Undefined, "single", "double"}

ShowSecondary_ignoresVariant(variant, metric) == Truthy(metric.secondaryValue)

\* variant === 'double' && metric.secondaryValue && (<p>...</p>)
ShowSecondary(variant, metric) ==
    variant = "double" /\ Truthy(metric.secondaryValue)

\* One metrics__item: the title, the value paragraphs, the description.
MetricsItem(variant, metric) ==
    [title       |-> metric.title,
     values      |-> << [text |-> metric.value, secondary |-> FALSE] >> \o
                     (IF ShowSecondary(variant, metric)
                      THEN << [text |-> metric.secondaryValue, secondary |-> TRUE] >>
                      ELSE <<>>),
     description |-> metric.description]

\* The gradientColor prop: omitted, the two predefined names, the empty
\* string, a near-match of a predefined name, a custom colour.
GradientColors == {Undefined, "blue", "orange", "", "blueish", "#FF5733"}

GradientClass_loose(gradientColor) ==
    IF gradientColor \in {"blue", "orange", "blueish"}
    THEN "gradient--" \o gradientColor ELSE ""

\* gradientClass: the stylesheet class of a predefined colour, else ''.
GradientClass(gradientColor) ==
    IF gradientColor = "blue" \/ gradientColor = "orange"
    THEN "gradient--" \o gradientColor ELSE ""

\* customGradientStyle: the value of --gradient-custom, Undefined for {}.
CustomGradientStyle(gradientColor) ==
    IF gradientColor # "blue" /\ gradientColor # "orange"
    THEN "linear-gradient(180deg, #FFF 0%, " \o gradientColor \o " 100%)"
    ELSE Undefined

\* Every value paragraph of an item carries gradientClass and the style.
WithGradient(item, gradientColor) ==
    [item EXCEPT !.values =
        [k \in 1..Len(item.values) |->
            [text           |-> item.values[k].text,
             secondary      |-> item.values[k].secondary,
             gradientClass  |-> GradientClass(gradientColor),
             gradientCustom |-> CustomGradientStyle(gradientColor)]]]

\* The section returned for props p: its variant class and one item per metric.
MetricsRender(p) ==
    LET variant       == Default(p.variant, "single")
        gradientColor == Default(p.gradientColor, "orange")
    IN  [variantClass |-> "metrics--" \o variant,
         items        |-> [i \in 1..Len(p.metrics) |->
                             WithGradient(MetricsItem(variant, p.metrics[i]), gradientColor)]]

MetricsMounted(p) == [props |-> p, section |-> MetricsRender(p)]

MetricsInit ==
    /\ isMobileMenuOpen = InitialOpen
    /\ closure = InitialOpen
    /\ tree = Unmounted
    /\ history = <<>>
    /\ second = Unmounted
    /\ button = Unmounted
    /\ \E v \in MetricsVariants : \E ms \in MetricArrays : \E g \in GradientColors :
          metrics = MetricsMounted([variant |-> v, metrics |-> ms, gradientColor |-> g])
    /\ hosts = Unmounted
    /\ code = Unmounted
    /\ navDemo = Unmounted

\* The parent re-renders with another variant.
MetricsSetVariant ==
    /\ \E v \in MetricsVariants :
          metrics' = MetricsMounted([metrics.props EXCEPT !.variant = v])
    /\ UNCHANGED <<headerVars, second, button, hosts, showcaseVars>>

\* The parent re-renders with another metrics array.
MetricsSetData ==
    /\ \E ms \in MetricArrays :
          metrics' = MetricsMounted([metrics.props EXCEPT !.metrics = ms])
    /\ UNCHANGED <<headerVars, second, button, hosts, showcaseVars>>

\* The parent re-renders with another gradientColor.
MetricsSetGradient ==
    /\ \E g \in GradientColors :
          metrics' = MetricsMounted([metrics.props EXCEPT !.gradientColor = g])
    /\ UNCHANGED <<headerVars, second, button, hosts, showcaseVars>>

NextMetrics ==
    \/ MetricsSetVariant
    \/ MetricsSetData
    \/ MetricsSetGradient

SpecMetrics == MetricsInit /\ [][NextMetrics]_vars

----------------------------------------------------------------------------
(* NavigationHeader with the props of its parent.  Two instances are       *)
(* mounted; the parent may re-render either with another className or      *)
(* data-testid.  The props reach the <header> element only.                *)

\* Longest sequence of activations explored over the two hosted instances.
MaxPropEvents == 2

HeaderProps == [className : {Undefined, "updated"},
                testId    : {Undefined, "", "custom-header"}]

NoProps == [className |-> Undefined, testId |-> Undefined]

\* `${styles['navigation-header']} ${className || ''}`
HeaderClassName(className) ==
    "navigation-header " \o (IF className = Undefined THEN "" ELSE className)

\* testId || "navigation-header": an omitted or empty data-testid gives the default.
HeaderTestId(testId) ==
    IF testId = Undefined \/ testId = "" THEN "navigation-header" ELSE testId

\* The tree returned for state value open and props p.  className is
\* modelled for the <header> element, the first of the tree.
RenderWith(open, p) ==
    LET t == Render(open)
    IN  [i \in 1..Len(t) |->
            [tag          |-> t[i].tag,
             testid       |-> IF i = 1 THEN HeaderTestId(p.testId) ELSE t[i].testid,
             name         |-> t[i].name,
             href         |-> t[i].href,
             onClick      |-> t[i].onClick,
             ariaExpanded |-> t[i].ariaExpanded,
             src          |-> t[i].src,
             className    |-> IF i = 1 THEN HeaderClassName(p.className) ELSE ""]]

Commit_keepsClosedTree(prev, open, p) ==
    IF open THEN RenderWith(open, p) ELSE prev

\* The output of a render replaces the previously committed tree prev.
Commit(prev, open, p) == RenderWith(open, p)

\* The data-testids a user can activate, the logo included.
HostIds == HeaderIds \cup {"navigation-logo"}

PropsInit ==
    /\ isMobileMenuOpen = InitialOpen
    /\ closure = InitialOpen
    /\ tree = Unmounted
    /\ history = <<>>
    /\ second = Unmounted
    /\ button = Unmounted
    /\ metrics = Unmounted
    /\ hosts = [inst \in 1..2 |->
                  [props            |-> NoProps,
                   isMobileMenuOpen |-> InitialOpen,
                   closure          |-> InitialOpen,
                   tree             |-> RenderWith(InitialOpen, NoProps),
                   history          |-> <<>>]]
    /\ code = Unmounted
    /\ navDemo = Unmounted

\* A click on the element id of hosted instance inst, followed by its re-render.
HostClick(inst, id) ==
    /\ Len(hosts[1].history) + Len(hosts[2].history) < MaxPropEvents
    /\ HasTestId(hosts[inst].tree, id)
    /\ LET me == hosts[inst]
           v  == Dispatch(GetByTestId(me.tree, id).onClick, me.closure, me.isMobileMenuOpen)
       IN  hosts' = [hosts EXCEPT ![inst] =
                        [props            |-> me.props,
                         isMobileMenuOpen |-> v,
                         closure          |-> v,
                         tree             |-> Commit(me.tree, v, me.props),
                         history          |-> Append(me.history, id)]]
    /\ UNCHANGED <<headerVars, second, button, metrics, showcaseVars>>

FirstHostClick == \E id \in HostIds : HostClick(1, id)

SecondHostClick == \E id \in HostIds : HostClick(2, id)

\* The parent re-renders instance inst with other props; its state cell stays.
HostRerender(inst) ==
    /\ \E p \in HeaderProps :
          /\ p # hosts[inst].props
          /\ hosts' = [hosts EXCEPT ![inst] =
                          [props            |-> p,
                           isMobileMenuOpen |-> hosts[inst].isMobileMenuOpen,
                           closure          |-> hosts[inst].isMobileMenuOpen,
                           tree             |-> Commit(hosts[inst].tree,
                                                       hosts[inst].isMobileMenuOpen, p),
                           history          |-> hosts[inst].history]]
    /\ UNCHANGED <<headerVars, second, button, metrics, showcaseVars>>

FirstHostRerender == HostRerender(1)

SecondHostRerender == HostRerender(2)

NextProps ==
    \/ FirstHostClick
    \/ SecondHostClick
    \/ FirstHostRerender
    \/ SecondHostRerender

SpecProps == PropsInit /\ [][NextProps]_vars

----------------------------------------------------------------------------
(* CodeExample of the showcase page (src/src/app/showcase/page.tsx).  It   *)
(* owns isExpanded and isCopied.  handleCopy is asynchronous: the click    *)
(* starts navigator.clipboard.writeText, and the rest of the handler runs  *)
(* when the write settles.  The timeout it starts is never cleared, and    *)
(* the component registers no cleanup, so writes and timeouts outlive an   *)
(* unmount.  All timeouts have the same delay and fire in creation order,  *)
(* so the pending ones are counted.                                        *)

\* Most user activations (Copy, Expand/Collapse) explored on one CodeExample.
MaxCodeEvents == 3

InitialExpanded_true(collapsible) == TRUE

\* useState(!collapsible)
InitialExpanded(collapsible) == ~collapsible

\* The value the toggle button hands to setIsExpanded.
setIsExpandedArg(captured) == ~captured

ExpandLabel(isExpanded) == IF isExpanded THEN "Collapse" ELSE "Expand"

CopyLabel(isCopied) == IF isCopied THEN "Copied!" ELSE "Copy"

\* What the component returns: the label of the toggle (Undefined when the
\* button is not rendered), the label of the copy button, and whether the
\* <pre> block is rendered.
CodeRender(collapsible, isExpanded, isCopied) ==
    [toggle    |-> IF collapsible THEN ExpandLabel(isExpanded) ELSE Undefined,
     copy      |-> CopyLabel(isCopied),
     codeBlock |-> isExpanded]

\* Nothing of the component is in the document.
NoView == [toggle |-> Undefined, copy |-> Undefined, codeBlock |-> FALSE]

\* The record after a step named step: the step is counted and the
\* component, if mounted, has re-rendered.
After(c, step) ==
    [c EXCEPT !.n = c.n + 1,
              !.last = step,
              !.view = IF c.mounted
                       THEN CodeRender(c.collapsible, c.isExpanded, c.isCopied)
                       ELSE NoView]

\* handleCopy up to its await: the clipboard write is started.
HandleCopyStart(c) == [c EXCEPT !.writes = c.writes + 1]

HandleCopyResume_noTimeout(c) ==
    [c EXCEPT !.writes = c.writes - 1,
              !.succeeded = c.succeeded + 1,
              !.isCopied = IF c.mounted THEN TRUE ELSE c.isCopied]

\* handleCopy after a fulfilled write: setIsCopied(true), then setTimeout.
\* A setter called on an unmounted component changes nothing.
HandleCopyResume(c) ==
    [c EXCEPT !.writes = c.writes - 1,
              !.succeeded = c.succeeded + 1,
              !.isCopied = IF c.mounted THEN TRUE ELSE c.isCopied,
              !.timers = c.timers + 1]

HandleCopyThrow_setsCopied(c) ==
    [c EXCEPT !.writes = c.writes - 1,
              !.isCopied = IF c.mounted THEN TRUE ELSE c.isCopied,
              !.timers = c.timers + 1]

\* handleCopy after a rejected write: the await throws, the rest is skipped.
HandleCopyThrow(c) == [c EXCEPT !.writes = c.writes - 1]

\* The timeout callback () => setIsCopied(false).
CopyTimeout(c) ==
    [c EXCEPT !.timers = c.timers - 1,
              !.isCopied = IF c.mounted THEN FALSE ELSE c.isCopied,
              !.late = IF c.mounted THEN c.late ELSE c.late + 1]

CodeMounted(collapsible) ==
    [collapsible |-> collapsible,
     mounted     |-> TRUE,
     isExpanded  |-> InitialExpanded(collapsible),
     isCopied    |-> FALSE,
     writes      |-> 0,
     timers      |-> 0,
     succeeded   |-> 0,
     late        |-> 0,
     clicks      |-> 0,
     n           |-> 0,
     last        |-> "mount",
     view        |-> CodeRender(collapsible, InitialExpanded(collapsible), FALSE)]

CodeInit ==
    /\ isMobileMenuOpen = InitialOpen
    /\ closure = InitialOpen
    /\ tree = Unmounted
    /\ history = <<>>
    /\ second = Unmounted
    /\ button = Unmounted
    /\ metrics = Unmounted
    /\ hosts = Unmounted
    /\ \E collapsible \in BOOLEAN : code = CodeMounted(collapsible)
    /\ navDemo = Unmounted

CopyClick ==
    /\ code.mounted
    /\ code.clicks < MaxCodeEvents
    /\ code' = After([HandleCopyStart(code) EXCEPT !.clicks = code.clicks + 1], "copy")
    /\ UNCHANGED <<headerVars, second, button, metrics, hosts, navDemo>>

\* The pending clipboard write is fulfilled.
WriteResolve ==
    /\ code.writes > 0
    /\ code' = After(HandleCopyResume(code), "resolved")
    /\ UNCHANGED <<headerVars, second, button, metrics, hosts, navDemo>>

\* The pending clipboard write is rejected (permission denied, no focus).
WriteReject ==
    /\ code.writes > 0
    /\ code' = After(HandleCopyThrow(code), "rejected")
    /\ UNCHANGED <<headerVars, second, button, metrics, hosts, navDemo>>

\* The oldest pending timeout fires.
TimerFire ==
    /\ code.timers > 0
    /\ code' = After(CopyTimeout(code), "timer")
    /\ UNCHANGED <<headerVars, second, button, metrics, hosts, navDemo>>

\* A click on the Expand/Collapse button, rendered only when collapsible.
CodeToggleClick ==
    /\ code.mounted
    /\ code.view.toggle # Undefined
    /\ code.clicks < MaxCodeEvents
    /\ code' = After([code EXCEPT !.isExpanded = setIsExpandedArg(code.isExpanded),
                                  !.clicks = code.clicks + 1], "toggle")
    /\ UNCHANGED <<headerVars, second, button, metrics, hosts, navDemo>>

\* The page is left: the component is removed, its state is discarded.
CodeUnmount ==
    /\ code.mounted
    /\ code' = After([code EXCEPT !.mounted = FALSE], "unmount")
    /\ UNCHANGED <<headerVars, second, button, metrics, hosts, navDemo>>

NextCode ==
    \/ CopyClick
    \/ WriteResolve
    \/ WriteReject
    \/ TimerFire
    \/ CodeToggleClick
    \/ CodeUnmount

SpecCode == CodeInit /\ [][NextCode]_vars

\* The event loop runs every timeout callback whose delay has elapsed.
SpecCodeFair == SpecCode /\ WF_vars(TimerFire)

----------------------------------------------------------------------------
(* The interactive navigation demo of NavTextItemShowcase: five            *)
(* NavTextItem links and one activeItem state.                             *)

\* Longest sequence of item clicks explored on the demo.
MaxDemoClicks == 3

DemoItems == <<"home", "about", "services", "portfolio", "contact">>

\* useState('home')
InitialActiveItem == "home"

IsActive_homeToo(activeItem, item) == activeItem = item \/ item = "home"

\* isActive={activeItem === item}
IsActive(activeItem, item) == activeItem = item

\* The value the onClick of item's link hands to setActiveItem.
setActiveItemArg(item) == item

\* NavTextItem calls the onClick prop it was given when its link is clicked.
NavTextItemCallsOnClick == TRUE

\* The props of the five NavTextItem elements, in document order.
DemoRender(activeItem) ==
    [i \in 1..Len(DemoItems) |->
        [testid   |-> "nav-item-demo-" \o DemoItems[i],
         href     |-> "/" \o DemoItems[i],
         isActive |-> IsActive(activeItem, DemoItems[i])]]

DemoMounted(activeItem, clicked) ==
    [activeItem |-> activeItem, items |-> DemoRender(activeItem), history |-> clicked]

DemoInit ==
    /\ isMobileMenuOpen = InitialOpen
    /\ closure = InitialOpen
    /\ tree = Unmounted
    /\ history = <<>>
    /\ second = Unmounted
    /\ button = Unmounted
    /\ metrics = Unmounted
    /\ hosts = Unmounted
    /\ code = Unmounted
    /\ navDemo = DemoMounted(InitialActiveItem, <<>>)

\* A click on the link of DemoItems[i]: preventDefault, setActiveItem(item),
\* re-render.
DemoClick(i) ==
    /\ Len(navDemo.history) < MaxDemoClicks
    /\ NavTextItemCallsOnClick
    /\ navDemo' = DemoMounted(setActiveItemArg(DemoItems[i]),
                              Append(navDemo.history, DemoItems[i]))
    /\ UNCHANGED <<headerVars, second, button, metrics, hosts, code>>

DemoItemClick == \E i \in 1..Len(DemoItems) : DemoClick(i)

NextDemo == DemoItemClick

SpecDemo == DemoInit /\ [][NextDemo]_vars

----------------------------------------------------------------------------
(* Properties                                                              *)

Toggle == GetByTestId(tree, "mobile-menu-toggle")

Last(h) == h[Len(h)]

MobileNavLinkIds == {"mobile-nav-link-" \o NavItems[i] : i \in 1..Len(NavItems)}

MobileCtaIds == {"mobile-cta-" \o CtaItems[i] : i \in 1..Len(CtaItems)}

OnlyToggles == \A i \in 1..Len(history) : history[i] = "mobile-menu-toggle"

\* The step activates the element with data-testid id.
Activated(id) == history' = Append(history, id)

\* C1: after N toggle activations and nothing else since mount, the menu is
\* open exactly when N is odd.
C1_ToggleParity ==
    OnlyToggles => (isMobileMenuOpen <=> (Len(history) % 2 = 1))

C1_Witness ==
    /\ OnlyToggles
    /\ Len(history) = 3
    /\ isMobileMenuOpen

\* C2: the toggle's aria-expanded is "true" exactly when the menu is open.
C2_AriaExpandedMatches ==
    (Toggle.ariaExpanded = "true") <=> isMobileMenuOpen

C2_Witness ==
    /\ Len(history) = 3
    /\ history[2] \in MobileNavLinkIds
    /\ isMobileMenuOpen
    /\ Toggle.ariaExpanded = "true"

\* C3: the toggle's aria-label is "Close menu" when open and "Open menu" when
\* closed, and never anything else.
C3_AriaLabelMatches ==
    /\ Toggle.name \in {"Close menu", "Open menu"}
    /\ isMobileMenuOpen => Toggle.name = "Close menu"
    /\ ~isMobileMenuOpen => Toggle.name = "Open menu"

C3_Witness ==
    /\ Len(history) = 2
    /\ history[1] = "mobile-menu-toggle"
    /\ history[2] = "mobile-menu-toggle"
    /\ Toggle.name = "Open menu"

\* C4: glyph, aria-expanded and aria-label all show Open when the menu is open
\* and all show Closed when it is closed.
C4_IndicatorsAgree ==
    /\ isMobileMenuOpen =>
          /\ ToggleIcon(tree).src = "/close.svg"
          /\ Toggle.ariaExpanded = "true"
          /\ Toggle.name = "Close menu"
    /\ ~isMobileMenuOpen =>
          /\ ToggleIcon(tree).src = "/hamburger.svg"
          /\ Toggle.ariaExpanded = "false"
          /\ Toggle.name = "Open menu"

C4_Witness ==
    /\ Len(history) = 3
    /\ history[2] \in MobileCtaIds
    /\ ToggleIcon(tree).src = "/close.svg"
    /\ Toggle.ariaExpanded = "true"
    /\ Toggle.name = "Close menu"

\* The "Mobile navigation" landmark follows the mobile-menu container.
PanelPresent(t) ==
    \E i \in 1..Len(t) : \E j \in (i + 1)..Len(t) :
        /\ t[i].testid = "mobile-menu"
        /\ t[j].tag = "nav"
        /\ t[j].name = "Mobile navigation"

\* C5: the disclosure panel with its "Mobile navigation" landmark is in the
\* tree exactly when the menu is open; "Main navigation" is always in the tree.
C5_PanelIffOpen ==
    /\ PanelPresent(tree) <=> isMobileMenuOpen
    /\ HasTestId(tree, "mobile-menu") <=> isMobileMenuOpen
    /\ HasLandmark(tree, "Mobile navigation") <=> isMobileMenuOpen
    /\ HasLandmark(tree, "Main navigation")
    /\ HasTestId(tree, "desktop-navigation")

C5_Witness ==
    /\ Len(history) = 2
    /\ history[2] \in MobileNavLinkIds
    /\ ~PanelPresent(tree)
    /\ HasLandmark(tree, "Main navigation")

\* C6: a freshly mounted header is closed: aria-expanded "false", name
\* "Open menu", no disclosure panel.
C6_InitiallyClosed ==
    history = <<>> =>
        /\ ~isMobileMenuOpen
        /\ Toggle.ariaExpanded = "false"
        /\ Toggle.name = "Open menu"
        /\ ~HasTestId(tree, "mobile-menu")

C6_Witness ==
    /\ history = <<>>
    /\ Toggle.ariaExpanded = "false"
    /\ Len(tree) = Len(HeaderRow(FALSE))

\* C7: with the menu open, activating any of the three panel links closes the
\* menu and removes the panel.
C7_PanelLinkCloses ==
    [][\A id \in MobileNavLinkIds :
          (isMobileMenuOpen /\ Activated(id)) =>
              (~isMobileMenuOpen' /\ ~HasTestId(tree', "mobile-menu"))]_vars

C7_Witness ==
    /\ Len(history) = 4
    /\ history[2] = "mobile-nav-link-product"
    /\ history[4] = "mobile-nav-link-contact"
    /\ ~isMobileMenuOpen
    /\ ~HasTestId(tree, "mobile-menu")

\* C8: with the menu open, activating a panel CTA leaves the menu open,
\* aria-expanded "true" and the name "Close menu".
C8_PanelCtaKeepsOpen ==
    [][\A id \in MobileCtaIds :
          (isMobileMenuOpen /\ Activated(id)) =>
              /\ isMobileMenuOpen'
              /\ Toggle'.ariaExpanded = "true"
              /\ Toggle'.name = "Close menu"]_vars

C10_CloseIdempotent ==
    [][Activated("closeMobileMenu") =>
          /\ ~isMobileMenuOpen'
          /\ ~isMobileMenuOpen => (isMobileMenuOpen' = isMobileMenuOpen /\ tree' = tree)
          /\ (history # <<>> /\ Last(history) = "closeMobileMenu") =>
                (isMobileMenuOpen' = isMobileMenuOpen /\ closure' = closure /\ tree' = tree)]_vars

C10_Witness ==
    /\ Len(history) = 4
    /\ history[1] = "closeMobileMenu"
    /\ history[2] = "toggleMobileMenu"
    /\ history[3] = "closeMobileMenu"
    /\ history[4] = "closeMobileMenu"
    /\ ~isMobileMenuOpen
    /\ tree = Render(FALSE)

ToggleActivations ==
    {"mobile-menu-toggle", "mobile-menu-toggle:Enter", "mobile-menu-toggle:Space"}

\* C11: the state is always Closed or Open; within one mounted instance the
\* state changes only by a toggle activation (which always flips it) or, from
\* Open, by activating a panel item; and the toggle is never disabled: while
\* the exploration bound allows another event, a toggle click is enabled and
\* changes the state.
C11_StateMachine ==
    /\ [](isMobileMenuOpen \in BOOLEAN)
    /\ [][history' # <<>> =>
            /\ Last(history') \in ToggleActivations => isMobileMenuOpen' = ~isMobileMenuOpen
            /\ isMobileMenuOpen' # isMobileMenuOpen =>
                  \/ Last(history') \in ToggleActivations
                  \/ /\ isMobileMenuOpen
                     /\ Last(history') \in MobileNavLinkIds \cup MobileCtaIds]_vars
    /\ [](Len(history) < MaxEvents =>
            ENABLED (ToggleClick /\ isMobileMenuOpen' # isMobileMenuOpen))

C11_Witness ==
    /\ Len(history) = 3
    /\ history[1] = "mobile-menu-toggle"
    /\ history[2] = "mobile-nav-link-enterprise"
    /\ history[3] = "mobile-menu-toggle"
    /\ isMobileMenuOpen

CountWhere(t, P(_)) == Cardinality({i \in 1..Len(t) : P(t[i])})

IsLink(el) == el.tag = "a"

IsLogIn(el) == el.tag = "button" /\ el.name = "Log In"

IsSignUp(el) == el.tag = "button" /\ el.name = "Sign Up"

IsPanelLink(el) == el.testid \in MobileNavLinkIds

IsPanelCta(el) == el.testid \in MobileCtaIds

C13_TwoCtaPairsInitially ==
    history = <<>> =>
        /\ CountWhere(tree, IsLogIn) = 2
        /\ CountWhere(tree, IsSignUp) = 2

\* C14: click, Enter and Space on the toggle each perform one toggle: after
\* any mixed sequence of N such activations and nothing else, the menu is open
\* exactly when N is odd, as after N clicks.
C14_ActivationsInterchangeable ==
    (\A i \in 1..Len(history) : history[i] \in ToggleActivations) =>
        (isMobileMenuOpen <=> (Len(history) % 2 = 1))

C14_Witness ==
    /\ history = <<"mobile-menu-toggle", "mobile-menu-toggle:Enter", "mobile-menu-toggle:Space">>
    /\ isMobileMenuOpen

\* Label and target of every link of t, in document order.
LinkEntries(t) ==
    LET links == SelectSeq(t, IsLink)
    IN  [i \in 1..Len(links) |-> <<links[i].name, links[i].href>>]

PanelStart(t) == CHOOSE i \in 1..Len(t) : t[i].testid = "mobile-menu"

\* C16: whenever the panel is rendered, its navigation entries are those of
\* the always-visible navigation: Product, Enterprise, Contact with targets
\* #product, #enterprise, #contact, in that order.
C16_SameEntries ==
    HasTestId(tree, "mobile-menu") =>
        /\ LinkEntries(SubSeq(tree, PanelStart(tree), Len(tree)))
              = LinkEntries(SubSeq(tree, 1, PanelStart(tree) - 1))
        /\ LinkEntries(SubSeq(tree, PanelStart(tree), Len(tree)))
              = << <<"Product", "#product">>, <<"Enterprise", "#enterprise">>,
                   <<"Contact", "#contact">> >>

C16_Witness ==
    /\ Len(history) = 3
    /\ HasTestId(tree, "mobile-menu")
    /\ Len(LinkEntries(SubSeq(tree, PanelStart(tree), Len(tree)))) = 3

\* C15: two instances on one page are independent: an activation in one
\* instance leaves the other's MenuVisibility and rendered tree unchanged.
C15_InstancesIndependent ==
    [][\A inst \in 1..2 :
          (history' # history /\ Last(history')[1] = inst) =>
              Instance(3 - inst)' = Instance(3 - inst)]_vars

C15_Witness ==
    /\ history = << <<1, "mobile-menu-toggle">>, <<2, "mobile-menu-toggle">>,
                    <<2, "mobile-cta-login">> >>
    /\ isMobileMenuOpen
    /\ ~second.isMobileMenuOpen
    /\ Toggle.ariaExpanded = "true"
    /\ GetByTestId(second.tree, "mobile-menu-toggle").ariaExpanded = "false"

Activations == {"click", "Enter", "Space"}

C18_LoadingDisables ==
    button.props.loading = "true" =>
        /\ button.el.disabled
        /\ button.el.ariaDisabled = "true"

HasClass(el, c) == \E i \in 1..Len(el.classes) : el.classes[i] = c

SecondaryCount(item) ==
    Cardinality({k \in 1..Len(item.values) : item.values[k].secondary})

\* C20: one item is rendered per metric; an item has a secondary value
\* element exactly when the variant is 'double' and the metric's
\* secondaryValue is a non-empty string, so none with 'single' (or no variant).
C20_SecondaryIffDoubleAndNonEmpty ==
    LET ms    == metrics.props.metrics
        items == metrics.section.items
    IN  /\ Len(items) = Len(ms)
        /\ \A i \in 1..Len(ms) :
              /\ SecondaryCount(items[i]) \in {0, 1}
              /\ SecondaryCount(items[i]) = 1 <=>
                    /\ metrics.props.variant = "double"
                    /\ ms[i].secondaryValue \notin {Undefined, ""}
              /\ SecondaryCount(items[i]) = 1 =>
                    items[i].values[2].text = ms[i].secondaryValue
        /\ metrics.props.variant \in {"single", Undefined} =>
              \A i \in 1..Len(items) : SecondaryCount(items[i]) = 0

C20_Witness ==
    /\ metrics.props.variant = "double"
    /\ metrics.props.metrics = << MetricData("50"), MetricData(Undefined), MetricData("") >>
    /\ Len(metrics.section.items) = 3
    /\ SecondaryCount(metrics.section.items[1]) = 1
    /\ SecondaryCount(metrics.section.items[2]) = 0
    /\ SecondaryCount(metrics.section.items[3]) = 0

\* Every value paragraph rendered by the mounted Metrics.
ValueElements ==
    UNION {{metrics.section.items[i].values[k] : k \in 1..Len(metrics.section.items[i].values)}
           : i \in 1..Len(metrics.section.items)}

\* C21: every value element gets exactly one of two stylings: for 'blue' or
\* 'orange' (and for an omitted gradientColor, which means orange) the class
\* gradient--<color> and no --gradient-custom; for any other string no
\* gradient class and --gradient-custom set to the linear-gradient of it.
C21_GradientStyling ==
    LET given == metrics.props.gradientColor
        color == IF given = Undefined THEN "orange" ELSE given
    IN  \A v \in ValueElements :
          /\ (v.gradientClass # "") # (v.gradientCustom # Undefined)
          /\ color \in {"blue", "orange"} =>
                /\ v.gradientClass = "gradient--" \o color
                /\ v.gradientCustom = Undefined
          /\ color \notin {"blue", "orange"} =>
                /\ v.gradientClass = ""
                /\ v.gradientCustom = "linear-gradient(180deg, #FFF 0%, " \o color \o " 100%)"

C21_Witness ==
    /\ metrics.props.gradientColor = "blueish"
    /\ metrics.props.variant = "double"
    /\ metrics.props.metrics = << MetricData("50") >>
    /\ Cardinality(ValueElements) = 2
    /\ \A v \in ValueElements :
          v.gradientCustom = "linear-gradient(180deg, #FFF 0%, blueish 100%)"

\* C22: every toggle invocation negates the value current at the time of the
\* invocation, so N toggle activations since mount leave the menu open
\* exactly when N is odd, also when several activations are dispatched
\* before one re-render.
C22_BatchedToggleParity ==
    /\ OnlyToggles => (isMobileMenuOpen <=> (Len(history) % 2 = 1))
    /\ [][Activated("mobile-menu-toggle") => isMobileMenuOpen' = ~isMobileMenuOpen]_vars

\* The elements whose activation may change the visibility of the menu.
VisibilityChangers == {"mobile-menu-toggle"} \cup MobileNavLinkIds \cup MobileCtaIds

\* C23: the visibility of an instance's menu changes only in a step that
\* activates its toggle or one of its panel items; activating a desktop
\* link, a desktop CTA or the logo, and a re-render with another className
\* or data-testid, leave it as it was.
C23_OnlyToggleAndPanelChangeVisibility ==
    [][\A inst \in 1..2 :
          /\ hosts'[inst].isMobileMenuOpen # hosts[inst].isMobileMenuOpen =>
                \E id \in VisibilityChangers :
                    hosts'[inst].history = Append(hosts[inst].history, id)
          /\ hosts'[inst].props # hosts[inst].props =>
                hosts'[inst].isMobileMenuOpen = hosts[inst].isMobileMenuOpen
          /\ (\E id \in HostIds \ VisibilityChangers :
                    hosts'[inst].history = Append(hosts[inst].history, id)) =>
                hosts'[inst].isMobileMenuOpen = hosts[inst].isMobileMenuOpen]_vars

C23_Witness ==
    /\ hosts[1].history = <<"mobile-menu-toggle", "cta-signup">>
    /\ hosts[1].props = [className |-> "updated", testId |-> "custom-header"]
    /\ hosts[1].isMobileMenuOpen
    /\ HasTestId(hosts[1].tree, "custom-header")
    /\ HasTestId(hosts[1].tree, "mobile-menu")

CodeStep(step) == code'.n = code.n + 1 /\ code'.last = step

\* C25: when the clipboard write of a Copy succeeds, isCopied becomes true;
\* isCopied is never true unless some write has succeeded; and, the timer
\* being allowed to fire, a true isCopied eventually returns to false.
C25_CopiedAfterSuccessThenReset ==
    /\ []((code.mounted /\ code.isCopied) => code.succeeded > 0)
    /\ [][(CodeStep("resolved") /\ code.mounted) => code'.isCopied]_vars
    /\ (code.mounted /\ code.isCopied) ~> (~code.mounted \/ ~code.isCopied)

C25_Witness ==
    /\ code.mounted
    /\ code.last = "timer"
    /\ code.succeeded = 1
    /\ code.timers = 0
    /\ ~code.isCopied
    /\ code.view.copy = "Copy"

\* C26: while a timeout of a Copy is pending the indicator stays on (an
\* earlier timeout never turns it off while a later one is pending), and no
\* timeout callback runs against an unmounted CodeExample.
C26_LatestTimerKeepsIndicator ==
    /\ (code.mounted /\ code.timers > 0) => code.isCopied
    /\ code.late = 0

\* C27: a step in which the clipboard write fails leaves isCopied, the
\* pending timers and isExpanded as they were; no step of a Copy (click,
\* fulfilled or rejected write, timeout) changes isExpanded.
C27_FailedWriteChangesNothing ==
    [][/\ CodeStep("rejected") =>
            /\ code'.isCopied = code.isCopied
            /\ code'.timers = code.timers
            /\ code'.isExpanded = code.isExpanded
            /\ code'.view = code.view
       /\ (\E step \in {"copy", "resolved", "rejected", "timer"} : CodeStep(step)) =>
            code'.isExpanded = code.isExpanded]_vars

C27_Witness ==
    /\ code.mounted
    /\ code.collapsible
    /\ code.last = "rejected"
    /\ code.isExpanded
    /\ code.isCopied
    /\ code.timers = 1
    /\ code.succeeded = 1

\* C28: a non-collapsible CodeExample is expanded in every state; a
\* collapsible one starts collapsed and every activation of its toggle flips
\* isExpanded; the toggle reads "Collapse" exactly when expanded and
\* "Expand" exactly when collapsed; the code block is rendered exactly when
\* expanded.
C28_ExpandedStateAndLabel ==
    /\ [](code.mounted =>
            /\ ~code.collapsible => code.isExpanded
            /\ (code.collapsible /\ code.n = 0) => ~code.isExpanded
            /\ code.view.codeBlock <=> code.isExpanded
            /\ code.collapsible =>
                  /\ (code.view.toggle = "Collapse") <=> code.isExpanded
                  /\ (code.view.toggle = "Expand") <=> ~code.isExpanded)
    /\ [][CodeStep("toggle") => code'.isExpanded = ~code.isExpanded]_vars

C28_Witness ==
    /\ code.mounted
    /\ code.collapsible
    /\ code.last = "toggle"
    /\ code.clicks = 3
    /\ code.isExpanded
    /\ code.view.toggle = "Collapse"
    /\ code.view.codeBlock

\* The items of the demo rendered as active.
ActiveItems == {navDemo.items[i].testid : i \in {j \in 1..Len(navDemo.items) : navDemo.items[j].isActive}}

====
